---- MODULE Spec2Model ----
(***************************************************************************)
(* gitbook2pdf: GitBookToPDFConverter.process() and the progress file.     *)
(*                                                                         *)
(* One behaviour is one invocation of the command line tool: a converter   *)
(* is constructed from a Config, process() runs (load progress, fetch the  *)
(* sitemap, convert the pages through p-limit, merge, save progress) and   *)
(* the operating-system process ends.  The progress file on disk is the    *)
(* only state that outlives an invocation; Init draws it from the files    *)
(* earlier invocations leave behind.                                       *)
(***************************************************************************)
EXTENDS Integers, Sequences, FiniteSets, TLC

VARIABLES
    config,         \* this.config (Config, read-only after construction)
    pc,             \* position of process() / of the operating-system process
    stats,          \* this.stats (ProcessingStats)
    processedUrls,  \* this.processedUrls, a JS Set: insertion-ordered, no repeats
    pageContents,   \* this.pageContents (urls of the extracted pages, in push order)
    allUrls,        \* const allUrls = await this.fetchSitemap(...)
    urlsToProcess,  \* const urlsToProcess
    task,           \* the async closures given to limit(), one per index
    nextIdx,        \* head of p-limit's FIFO queue: tasks nextIdx..n are queued
    finalSnap,      \* the JSON text the driver's final saveProgress() is writing
    disk,           \* the progress file <outputDir>/.progress.json
    priorFile,      \* the progress file as this invocation found it
    web,            \* what the server answers to axios.get of each sitemap URL
    stack,          \* the pending fetchSitemap() calls, innermost last
    fetchLog,       \* every axios.get of fetchSitemap so far, with its outcome
    mergedHTML      \* the document generateMergedPDF gives to page.setContent

vars == <<config, pc, stats, processedUrls, pageContents, allUrls,
          urlsToProcess, task, nextIdx, finalSnap, disk, priorFile,
          web, stack, fetchLog, mergedHTML>>

----------------------------------------------------------------------------
(* Bounds of the model *)

\* longest sitemap (number of <url> entries) a run resolves
MaxUrls == 2
\* largest config.concurrency
MaxConc == 2
\* largest config.retries
MaxRetries == 2
\* size in bytes that fs.stat reports for a generated PDF
PdfBytes == 1
\* duration in ms that convertToPDF measures for one page
RenderMs == 1

(* Program constants *)

\* if (processed % 10 === 0) await this.saveProgress()
SaveEvery == 10
\* --delay default; any value > 0 behaves alike in process()
DelayMs == 1000

\* the pages of the site
URLS == {"/a/1", "/a/2"}

----------------------------------------------------------------------------
(* Helpers: sequences and the JS Set *)

Range(s) == {s[i] : i \in DOMAIN s}

SeqsUpTo(S, n) == UNION {[1..k -> S] : k \in 0..n}

\* Set.prototype.has
SetHas(set, u) == u \in Range(set)

\* mutant of SetAdd: the set is replaced by one holding the new element
SetAddReplace(set, u) == <<u>>

\* Set.prototype.add: appends unless present
SetAdd(set, u) == IF SetHas(set, u) THEN set ELSE Append(set, u)

\* new Set(array): first occurrences, in order
RECURSIVE SetFromArray(_)
SetFromArray(arr) ==
    IF arr = <<>> THEN <<>>
    ELSE LET init == SetFromArray(SubSeq(arr, 1, Len(arr) - 1))
         IN  SetAdd(init, arr[Len(arr)])

----------------------------------------------------------------------------
(* Config, ProcessingStats and the progress file *)

\* the server of a run whose sitemap resolution is taken as one step
NoWeb == [docs |-> <<>>, outage |-> 0]

Configs ==
    [concurrency : 1..MaxConc,
     retries     : {0, MaxRetries},
     delay       : {0, DelayMs},
     resume      : BOOLEAN,
     merge       : BOOLEAN,
     includePatterns : {<<>>},
     excludePatterns : {<<>>}]

\* private stats: ProcessingStats = { total: 0, ... }
ZeroStats ==
    [total |-> 0, successful |-> 0, failed |-> 0, skipped |-> 0,
     totalSize |-> 0, totalDuration |-> 0]

\* JSON.stringify of a non-negative integer: its decimal digits
RECURSIVE NumToJson(_)
NumToJson(n) ==
    IF n < 10 THEN <<n>> ELSE Append(NumToJson(n \div 10), n % 10)

\* JSON.parse of a number text
RECURSIVE JsonToNum(_)
JsonToNum(ds) ==
    IF ds = <<>> THEN 0
    ELSE 10 * JsonToNum(SubSeq(ds, 1, Len(ds) - 1)) + ds[Len(ds)]

\* JSON.stringify of the stats object: every own property, as number text
StatsToJson(st) == [k \in DOMAIN st |-> NumToJson(st[k])]

\* no progress file in the output directory
NoFile == [kind |-> "none", processedUrls |-> <<>>, stats |-> StatsToJson(ZeroStats)]

\* a progress file that fs.writeFile has truncated and not yet completed:
\* its text is a proper prefix of a JSON document, JSON.parse throws on it
PartialFile ==
    [kind |-> "partial", processedUrls |-> <<>>, stats |-> StatsToJson(ZeroStats)]

\* the JSON document saveProgress() builds: processedUrls as an array (Array.from
\* of the Set, in insertion order) and the stats object; the timestamp is never read
ProgressJson(set, st) ==
    [kind |-> "ok", processedUrls |-> set, stats |-> StatsToJson(st)]

\* sequences over S without repeats (the arrays Array.from(Set) can give)
Arrays(S) == {a \in SeqsUpTo(S, Cardinality(S)) : Cardinality(Range(a)) = Len(a)}

\* The progress files an earlier invocation can have left: its final save after a
\* fresh non-merge run in which the pages of `done` were converted (once each) and
\* f other pages of the site, as it then was, failed.
PriorFailed == {SaveEvery - 2}

PriorFiles ==
    {NoFile, PartialFile} \cup
    {ProgressJson(done,
        [total |-> Len(done) + f, successful |-> Len(done), failed |-> f,
         skipped |-> 0, totalSize |-> PdfBytes * Len(done),
         totalDuration |-> RenderMs * Len(done)]) :
        done \in Arrays(URLS), f \in PriorFailed}

----------------------------------------------------------------------------
(* The tasks: urlsToProcess.map((url, index) => limit(async () => {...})) *)

\* pc of a task: "queued" in p-limit's queue; "mkdir" awaiting fs.mkdir of the
\* category directory; "convert" awaiting convertToPDF; "saving" awaiting the
\* periodic saveProgress, file not yet opened; "writing" file truncated, write
\* pending; "delay" awaiting this.delay(config.delay); "done" resolved;
\* "rejected" rejected.
NewTask(u) ==
    [url      |-> u,
     pc       |-> "queued",
     result   |-> "none",     \* "Success" | "Failure": result.success
     error    |-> "",         \* result.error
     cause    |-> "",         \* message of the error the last attempt threw
     attempts |-> 0,          \* convertToPDF calls made for this task
     fails    |-> 0,          \* renderer: attempts that fail before one succeeds
     counter  |-> 0,          \* the number given to createFileName
     snap     |-> NoFile]     \* the JSON text its saveProgress() is writing

InSlot == {"mkdir", "convert", "saving", "writing", "delay"}

\* p-limit's activeCount
ActiveCount(t) == Cardinality({i \in DOMAIN t : t[i].pc \in InSlot})

\* convertToPDF calls in flight
Rendering(t) == {i \in DOMAIN t : t[i].pc = "convert"}

\* the task body up to its first await: fs.mkdir unless merging, else convertToPDF
StartPc(cfg) == IF cfg.merge THEN "convert" ELSE "mkdir"

StartTask(t, i, cfg) ==
    [t EXCEPT ![i].pc = StartPc(cfg),
              ![i].attempts = IF cfg.merge THEN 1 ELSE 0]

\* mutant of CanStart: off by one
CanStartOffByOne(active, cfg) == active <= cfg.concurrency

\* p-limit enqueue: if (activeCount < concurrency && queue.size > 0) dequeue and run
CanStart(active, cfg) == active < cfg.concurrency

\* the n enqueue microtasks after the map(): tasks start, in order, while CanStart
RECURSIVE StartInitial(_, _, _)
StartInitial(t, next, cfg) ==
    IF next <= Len(t) /\ CanStart(ActiveCount(t), cfg)
    THEN StartInitial(StartTask(t, next, cfg), next + 1, cfg)
    ELSE [task |-> t, next |-> next]

\* p-limit next(): activeCount--; if (queue.size > 0) dequeue and run
Release(t, i, endpc, next, cfg) ==
    LET t1 == [t EXCEPT ![i].pc = endpc]
    IN  IF next <= Len(t)
        THEN [task |-> StartTask(t1, next, cfg), next |-> next + 1]
        ELSE [task |-> t1, next |-> next]

----------------------------------------------------------------------------
(* The renderer (puppeteer), an external collaborator *)

\* A page's rendering fails some number k of times in a row and then succeeds:
\* at once (0), after one failure (1), or not within any retry budget (MaxFails).
MaxFails == MaxRetries + 1

Fails == {0, 1, MaxFails}

\* error.message of a failed page.goto / page.pdf
RenderError == "render error"

\* extractPageContent swallows the error and returns null; convertToPDF then
\* reports this constant text
ExtractError == "Failed to extract content"

----------------------------------------------------------------------------
(* loadProgress / saveProgress *)

\* loadProgress: JSON.parse of the file; a missing or unparseable file throws
\* and the catch leaves the fields as they are
\* mutant of LoadProgress: the spread is written the other way round,
\* { ...progress.stats, ...this.stats }, so the fields in memory win
LoadProgressShadowed(file, set, st) ==
    IF file.kind = "ok"
    THEN [processedUrls |-> SetFromArray(file.processedUrls), stats |-> st]
    ELSE [processedUrls |-> set, stats |-> st]

\* this.stats = { ...this.stats, ...progress.stats }
MergeStats(st, js) ==
    [k \in DOMAIN st |-> IF k \in DOMAIN js THEN JsonToNum(js[k]) ELSE st[k]]

LoadProgress(file, set, st) ==
    IF file.kind = "ok"
    THEN [processedUrls |-> SetFromArray(file.processedUrls),
          stats |-> MergeStats(st, file.stats)]
    ELSE [processedUrls |-> set, stats |-> st]

\* saveProgress up to its await: the JSON text handed to fs.writeFile
SaveProgress(set, st) == ProgressJson(set, st)

\* fs.writeFile opens the file with flag 'w', which truncates it, then writes
Truncated(file) == PartialFile

----------------------------------------------------------------------------
(* createMergedHTML(): the merged document as a sequence of its parts *)

\* what extractPageContent returns for a page: document.title (two pages of
\* the site share theirs) and the outerHTML of its content element
Title == [u \in URLS |-> "Guide"]
Html == [u \in URLS |-> IF u = "/a/1" THEN "<main>1</main>" ELSE "<main>2</main>"]

\* the PageContent objects of the pages whose urls the buffer holds
Contents(urls) ==
    [i \in DOMAIN urls |-> [url |-> urls[i], title |-> Title[urls[i]],
                            html |-> Html[urls[i]]]]

\* no document: generateMergedPDF has not built one
NoDocument == <<>>

\* mutant of PageBlock: every block carries the page-break class
PageBlockBreakAlways(content, index) ==
    << <<"div", "page-break">>,
       <<"page-title", content.title>>,
       <<"page-url", content.url>>,
       <<"page-content", content.html>>,
       <<"/div", "">> >>

\* the template of one page: <div class="${index > 0 ? 'page-break' : ''}">
\* with the title, the url and the html of the page inside
PageBlock(content, index) ==
    << <<"div", IF index > 0 THEN "page-break" ELSE "">>,
       <<"page-title", content.title>>,
       <<"page-url", content.url>>,
       <<"page-content", content.html>>,
       <<"/div", "">> >>

\* Array.prototype.join: the separator between consecutive elements only
RECURSIVE Join(_, _)
Join(parts, sep) ==
    IF parts = <<>> THEN <<>>
    ELSE IF Len(parts) = 1 THEN parts[1]
    ELSE parts[1] \o <<sep>> \o Join(Tail(parts), sep)

\* contents.map((content, index) => ...).join('\n') inside the fixed
\* <!DOCTYPE html> ... <body> and </body></html>; index counts from 0
CreateMergedHTML(contents) ==
    << <<"<body>", "">> >>
        \o Join([i \in DOMAIN contents |-> PageBlock(contents[i], i - 1)],
                <<"\n", "">>)
        \o << <<"</body>", "">> >>

----------------------------------------------------------------------------
(* process() *)

Init ==
    /\ config \in Configs
    /\ pc = "new"
    /\ stats = ZeroStats
    /\ processedUrls = <<>>
    /\ pageContents = <<>>
    /\ allUrls = <<>>
    /\ urlsToProcess = <<>>
    /\ task = <<>>
    /\ nextIdx = 1
    /\ finalSnap = NoFile
    /\ disk \in (IF config.resume THEN PriorFiles ELSE {NoFile, PartialFile})
    /\ priorFile = disk
    /\ web = NoWeb
    /\ stack = <<>>
    /\ fetchLog = <<>>
    /\ mergedHTML = NoDocument

\* mutant of Start: loadProgress without its try/catch, a missing or
\* unparseable progress file is fatal
StartLoadFatal ==
    /\ pc = "new"
    /\ IF config.resume /\ disk.kind # "ok"
       THEN pc' = "fatal" /\ UNCHANGED <<processedUrls, stats>>
       ELSE /\ pc' = "fetch"
            /\ LET loaded == IF config.resume
                             THEN LoadProgress(disk, processedUrls, stats)
                             ELSE [processedUrls |-> processedUrls, stats |-> stats]
               IN  /\ processedUrls' = loaded.processedUrls
                   /\ stats' = loaded.stats
    /\ UNCHANGED <<config, pageContents, allUrls, urlsToProcess, task, nextIdx,
                   finalSnap, disk, priorFile,
                   web, stack, fetchLog, mergedHTML>>

\* fs.mkdir(outputDir); if (config.resume) await this.loadProgress()
Start ==
    /\ pc = "new"
    /\ pc' = "fetch"
    /\ LET loaded == IF config.resume
                     THEN LoadProgress(disk, processedUrls, stats)
                     ELSE [processedUrls |-> processedUrls, stats |-> stats]
       IN  /\ processedUrls' = loaded.processedUrls
           /\ stats' = loaded.stats
    /\ UNCHANGED <<config, pageContents, allUrls, urlsToProcess, task, nextIdx,
                   finalSnap, disk, priorFile,
                   web, stack, fetchLog, mergedHTML>>

\* mutant of UrlsToProcess: the resume filter is dropped
UrlsToProcessUnfiltered(urls, set, cfg) == urls

\* urlsToProcess = resume ? allUrls.filter(url => !processedUrls.has(url)) : allUrls
UrlsToProcess(urls, set, cfg) ==
    IF cfg.resume
    THEN LET fresh(u) == ~SetHas(set, u) IN SelectSeq(urls, fresh)
    ELSE urls

\* allUrls = await fetchSitemap(); the work list; stats.total; the limit() calls
FetchSitemap ==
    /\ pc = "fetch"
    /\ \E urls \in SeqsUpTo(URLS, MaxUrls) :
         LET todo == UrlsToProcess(urls, processedUrls, config)
             st   == StartInitial([i \in 1..Len(todo) |-> NewTask(todo[i])], 1, config)
         IN  /\ allUrls' = urls
             /\ urlsToProcess' = todo
             /\ stats' = [stats EXCEPT !.total = Len(todo)]
             /\ task' = st.task
             /\ nextIdx' = st.next
    /\ pc' = "running"
    /\ UNCHANGED <<config, processedUrls, pageContents, finalSnap, disk, priorFile,
                   web, stack, fetchLog, mergedHTML>>

\* fetchSitemap throws "Could not fetch sitemap after N retries"
FetchSitemapFail ==
    /\ pc = "fetch"
    /\ pc' = "fatal"
    /\ UNCHANGED <<config, stats, processedUrls, pageContents, allUrls,
                   urlsToProcess, task, nextIdx, finalSnap, disk, priorFile,
                   web, stack, fetchLog, mergedHTML>>

\* tasks run while process() awaits Promise.all, and go on running while the
\* finally block awaits cleanup() after a rejection
TasksRun == pc \in {"running", "fatal"}

\* await fs.mkdir(categoryDir) returns: createFileName(url, index +
\* processedUrls.size + 1), then convertToPDF is called
Mkdir(i) ==
    /\ TasksRun
    /\ i \in DOMAIN task
    /\ task[i].pc = "mkdir"
    /\ task' = [task EXCEPT ![i].pc = "convert",
                            ![i].attempts = 1,
                            ![i].counter = (i - 1) + Len(processedUrls) + 1]
    /\ UNCHANGED <<config, pc, stats, processedUrls, pageContents, allUrls,
                   urlsToProcess, nextIdx, finalSnap, disk, priorFile,
                   web, stack, fetchLog, mergedHTML>>

\* after the stats update: the rate-limiting delay, or the task resolves
AfterSave(t, i) ==
    IF config.delay > 0
    THEN [task |-> [t EXCEPT ![i].pc = "delay"], next |-> nextIdx]
    ELSE Release(t, i, "done", nextIdx, config)

\* if (processed % 10 === 0)
SaveDue(st) == (st.successful + st.failed) % SaveEvery = 0

\* mutant of RecordSuccess: stats.successful is not counted before the save
RecordSuccessLate(st, cfg) ==
    [st EXCEPT !.totalSize = @ + (IF cfg.merge THEN 0 ELSE PdfBytes),
               !.totalDuration = @ + RenderMs]

\* the stats update of a successful result
RecordSuccess(st, cfg) ==
    [st EXCEPT !.successful = @ + 1,
               !.totalSize = @ + (IF cfg.merge THEN 0 ELSE PdfBytes),
               !.totalDuration = @ + RenderMs]

\* the stats update of a failed result
RecordFailure(st) == [st EXCEPT !.failed = @ + 1]

\* mutant of PushContent: unshift, the newest page comes first
PushContentFront(contents, u) == <<u>> \o contents

\* this.pageContents.push(content) when extractPageContent has returned
PushContent(contents, u) == Append(contents, u)

\* mutant of MarkProcessed: the url is added whatever the result
MarkProcessedAlways(set, u, ok) == SetAdd(set, u)

\* if (result.success) { ...; this.processedUrls.add(url) } else { ... }
MarkProcessed(set, u, ok) == IF ok THEN SetAdd(set, u) ELSE set

\* convertToPDF returns its ProcessingResult; the task updates the stats and
\* the processed set and, when due, starts the periodic saveProgress
ConvertDone(i) ==
    /\ TasksRun
    /\ i \in DOMAIN task
    /\ task[i].pc = "convert"
    /\ \E k \in Fails :
         LET ok   == k = 0
             st   == IF ok THEN RecordSuccess(stats, config) ELSE RecordFailure(stats)
             set  == MarkProcessed(processedUrls, task[i].url, ok)
             t1   == [task EXCEPT
                        ![i].result = IF ok THEN "Success" ELSE "Failure",
                        ![i].fails  = k,
                        ![i].cause  = IF ok THEN "" ELSE RenderError,
                        ![i].error  = IF ok THEN ""
                                      ELSE IF config.merge THEN ExtractError
                                      ELSE RenderError]
             nxt  == IF SaveDue(st)
                     THEN [task |-> [t1 EXCEPT ![i].pc = "saving",
                                               ![i].snap = SaveProgress(set, st)],
                           next |-> nextIdx]
                     ELSE AfterSave(t1, i)
         IN  /\ stats' = st
             /\ processedUrls' = set
             /\ pageContents' = IF ok /\ config.merge
                                THEN PushContent(pageContents, task[i].url)
                                ELSE pageContents
             /\ task' = nxt.task
             /\ nextIdx' = nxt.next
    /\ UNCHANGED <<config, pc, allUrls, urlsToProcess, finalSnap, disk, priorFile,
                   web, stack, fetchLog, mergedHTML>>

\* convertToPDF outside merge mode: the attempt throws, the catch block builds
\* the failure result, and "await page.close()" in the finally block, which has
\* no handler, rejects as well (the browser connection is lost): the rejection
\* replaces the return value, the task rejects, Promise.all rejects
CloseFail(i) ==
    /\ TasksRun
    /\ i \in DOMAIN task
    /\ task[i].pc = "convert"
    /\ ~config.merge
    /\ LET t1  == [task EXCEPT ![i].fails = MaxFails, ![i].cause = RenderError]
           nxt == Release(t1, i, "rejected", nextIdx, config)
       IN  task' = nxt.task /\ nextIdx' = nxt.next
    /\ pc' = "fatal"
    /\ UNCHANGED <<config, stats, processedUrls, pageContents, allUrls,
                   urlsToProcess, finalSnap, disk, priorFile,
                   web, stack, fetchLog, mergedHTML>>

\* fs.writeFile of a task's periodic save opens (truncates) the file
WriteOpen(i) ==
    /\ TasksRun
    /\ i \in DOMAIN task
    /\ task[i].pc = "saving"
    /\ disk' = Truncated(disk)
    /\ task' = [task EXCEPT ![i].pc = "writing"]
    /\ UNCHANGED <<config, pc, stats, processedUrls, pageContents, allUrls,
                   urlsToProcess, nextIdx, finalSnap, priorFile,
                   web, stack, fetchLog, mergedHTML>>

\* fs.writeFile of a task's periodic save completes
WriteClose(i) ==
    /\ TasksRun
    /\ i \in DOMAIN task
    /\ task[i].pc = "writing"
    /\ disk' = task[i].snap
    /\ LET nxt == AfterSave(task, i)
       IN  task' = nxt.task /\ nextIdx' = nxt.next
    /\ UNCHANGED <<config, pc, stats, processedUrls, pageContents, allUrls,
                   urlsToProcess, finalSnap, priorFile,
                   web, stack, fetchLog, mergedHTML>>

\* fs.writeFile of a task's periodic save fails (EACCES on open, ENOSPC while
\* writing): saveProgress throws, the task's promise rejects, Promise.all rejects
WriteFail(i) ==
    /\ TasksRun
    /\ i \in DOMAIN task
    /\ task[i].pc \in {"saving", "writing"}
    /\ LET nxt == Release(task, i, "rejected", nextIdx, config)
       IN  task' = nxt.task /\ nextIdx' = nxt.next
    /\ pc' = "fatal"
    /\ UNCHANGED <<config, stats, processedUrls, pageContents, allUrls,
                   urlsToProcess, finalSnap, disk, priorFile,
                   web, stack, fetchLog, mergedHTML>>

\* await this.delay(config.delay) returns and the task resolves
DelayDone(i) ==
    /\ TasksRun
    /\ i \in DOMAIN task
    /\ task[i].pc = "delay"
    /\ LET nxt == Release(task, i, "done", nextIdx, config)
       IN  task' = nxt.task /\ nextIdx' = nxt.next
    /\ UNCHANGED <<config, pc, stats, processedUrls, pageContents, allUrls,
                   urlsToProcess, finalSnap, disk, priorFile,
                   web, stack, fetchLog, mergedHTML>>

\* await Promise.all(promises) returns: every task has resolved.  In merge mode
\* generateMergedPDF follows (it returns at once when nothing was extracted);
\* otherwise, and after it, the final saveProgress
AllResolved ==
    /\ pc = "running"
    /\ \A i \in DOMAIN task : task[i].pc = "done"
    /\ IF config.merge /\ pageContents # <<>>
       THEN pc' = "merging" /\ finalSnap' = finalSnap
       ELSE pc' = "finalsave" /\ finalSnap' = SaveProgress(processedUrls, stats)
    /\ UNCHANGED <<config, stats, processedUrls, pageContents, allUrls,
                   urlsToProcess, task, nextIdx, disk, priorFile,
                   web, stack, fetchLog, mergedHTML>>

\* generateMergedPDF succeeds: this.stats.totalSize = stats.size of the merged
\* file; then the final saveProgress
MergeOk ==
    /\ pc = "merging"
    /\ LET st == [stats EXCEPT !.totalSize = PdfBytes * Len(pageContents)]
       IN  /\ stats' = st
           /\ finalSnap' = SaveProgress(processedUrls, st)
    /\ mergedHTML' = CreateMergedHTML(Contents(pageContents))
    /\ pc' = "finalsave"
    /\ UNCHANGED <<config, processedUrls, pageContents, allUrls, urlsToProcess,
                   task, nextIdx, disk, priorFile,
                   web, stack, fetchLog>>

\* generateMergedPDF rethrows (page.setContent or page.pdf failed): process()
\* leaves the try block before the final saveProgress
MergeFail ==
    /\ pc = "merging"
    /\ pc' = "fatal"
    /\ UNCHANGED <<config, stats, processedUrls, pageContents, allUrls,
                   urlsToProcess, task, nextIdx, finalSnap, disk, priorFile,
                   web, stack, fetchLog, mergedHTML>>

\* fs.writeFile of the final save opens (truncates) the file
FinalWriteOpen ==
    /\ pc = "finalsave"
    /\ pc' = "finalwriting"
    /\ disk' = Truncated(disk)
    /\ UNCHANGED <<config, stats, processedUrls, pageContents, allUrls,
                   urlsToProcess, task, nextIdx, finalSnap, priorFile,
                   web, stack, fetchLog, mergedHTML>>

\* fs.writeFile of the final save completes; printSummary, cleanup, return
FinalWriteClose ==
    /\ pc = "finalwriting"
    /\ pc' = "done"
    /\ disk' = finalSnap
    /\ UNCHANGED <<config, stats, processedUrls, pageContents, allUrls,
                   urlsToProcess, task, nextIdx, finalSnap, priorFile,
                   web, stack, fetchLog, mergedHTML>>

\* fs.writeFile of the final save fails: saveProgress throws out of the try block
FinalWriteFail ==
    /\ pc \in {"finalsave", "finalwriting"}
    /\ pc' = "fatal"
    /\ UNCHANGED <<config, stats, processedUrls, pageContents, allUrls,
                   urlsToProcess, task, nextIdx, finalSnap, disk, priorFile,
                   web, stack, fetchLog, mergedHTML>>

\* catch: "Fatal error", rethrow; finally: cleanup; main(): process.exit(1)
Exit ==
    /\ pc = "fatal"
    /\ pc' = "failed"
    /\ UNCHANGED <<config, stats, processedUrls, pageContents, allUrls,
                   urlsToProcess, task, nextIdx, finalSnap, disk, priorFile,
                   web, stack, fetchLog, mergedHTML>>

Terminal == {"done", "failed", "crashed", "killed"}

\* The operating-system process dies while process() runs: a crash or power
\* loss ("crashed"), or SIGINT/SIGTERM ("killed": no handler is installed, so
\* Node's default disposition ends the process at once).  What was in memory is
\* gone, the file stays as it is; stats and processedUrls are kept in the model
\* as the record of what the process had completed.
Crash ==
    /\ pc \notin Terminal
    /\ pc' \in {"crashed", "killed"}
    /\ task' = <<>>
    /\ nextIdx' = 1
    /\ finalSnap' = NoFile
    /\ pageContents' = <<>>
    /\ mergedHTML' = NoDocument
    /\ UNCHANGED <<config, stats, processedUrls, allUrls, urlsToProcess, disk, priorFile,
                   web, stack, fetchLog>>

Next ==
    \/ Start
    \/ FetchSitemap
    \/ FetchSitemapFail
    \/ \E i \in 1..MaxUrls : Mkdir(i)
    \/ \E i \in 1..MaxUrls : ConvertDone(i)
    \/ \E i \in 1..MaxUrls : CloseFail(i)
    \/ \E i \in 1..MaxUrls : WriteOpen(i)
    \/ \E i \in 1..MaxUrls : WriteClose(i)
    \/ \E i \in 1..MaxUrls : WriteFail(i)
    \/ \E i \in 1..MaxUrls : DelayDone(i)
    \/ AllResolved
    \/ MergeOk
    \/ MergeFail
    \/ FinalWriteOpen
    \/ FinalWriteClose
    \/ FinalWriteFail
    \/ Exit
    \/ Crash

Spec == Init /\ [][Next]_vars

----------------------------------------------------------------------------
(* Vocabulary of the properties *)

\* what loadProgress took from the progress file at the start of this invocation
Loaded ==
    IF config.resume
    THEN LoadProgress(priorFile, <<>>, ZeroStats)
    ELSE [processedUrls |-> <<>>, stats |-> ZeroStats]

LoadedUrls == Range(Loaded.processedUrls)

\* the tasks that have recorded an outcome
Recorded == {i \in DOMAIN task : task[i].result # "none"}

Successes == {i \in DOMAIN task : task[i].result = "Success"}

Failures == {i \in DOMAIN task : task[i].result = "Failure"}

\* the work list has been built (and the process has not died since)
QueueBuilt == pc \in {"running", "merging", "finalsave", "finalwriting", "done"}

Died == pc \in {"crashed", "killed"}

----------------------------------------------------------------------------
(* Properties *)

\* C1: a URL whose rendering fails k < config.retries times and then succeeds is
\* retried and gets a Success outcome, no Failure outcome.
C1_RetryThenSuccess ==
    \A i \in Recorded :
        task[i].fails < config.retries => task[i].result = "Success"

\* C2: a URL whose every render attempt fails is attempted config.retries + 1
\* times, then gets one Failure outcome whose error is the last attempt's error.
C2_ExhaustedBudget ==
    \A i \in Recorded :
        task[i].fails > config.retries =>
            /\ task[i].attempts = config.retries + 1
            /\ task[i].result = "Failure"
            /\ task[i].error = task[i].cause

\* C3: at most config.concurrency convertToPDF calls are in flight.
C3_ConcurrencyBound == Cardinality(Rendering(task)) <= config.concurrency

\* C3 witness: every slot is rendering while a URL waits in the queue
C3_Witness ==
    /\ Cardinality(Rendering(task)) = config.concurrency
    /\ \E i \in DOMAIN task : task[i].pc = "queued"

\* C4: on a resumed run the work queue is the resolved URLs minus the loaded
\* processed set, and no loaded URL is ever given to a task.
C4_ResumeQueue ==
    config.resume =>
        /\ Range(urlsToProcess) = Range(allUrls) \ LoadedUrls
        /\ \A i \in DOMAIN task : task[i].url \notin LoadedUrls

\* C4 witness: checkpoint {/a/1}, resolved {/a/1, /a/2}, queue {/a/2}, rendering
C4_Witness ==
    /\ config.resume
    /\ LoadedUrls = {"/a/1"}
    /\ Range(allUrls) = {"/a/1", "/a/2"}
    /\ urlsToProcess = <<"/a/2">>
    /\ \E i \in DOMAIN task : task[i].pc = "convert"

\* C5: on a resumed run stats.skipped grows by the number of resolved URLs
\* filtered out as already processed.
C5_SkippedCounted ==
    (config.resume /\ QueueBuilt) =>
        stats.skipped = Loaded.stats.skipped + (Len(allUrls) - Len(urlsToProcess))

\* C6: when process() completes, successful + failed + skipped = total.
C6_StatsAddUp ==
    pc = "done" => stats.successful + stats.failed + stats.skipped = stats.total

\* C7: every resolved, not skipped URL gets exactly one outcome: never two, and
\* one once the run has completed.
C7_OneOutcomePerUrl ==
    \A u \in Range(urlsToProcess) :
        LET n == Cardinality({i \in Recorded : task[i].url = u})
        IN  /\ n <= 1
            /\ pc = "done" => n = 1

\* C8: the processed set is what was loaded plus exactly the URLs with a Success
\* outcome (a Failure adds nothing), and a resumed run queues every resolved URL
\* that is not in the loaded processed set.
C8_ProcessedIffSuccess ==
    /\ (pc # "new" /\ ~Died) =>
          Range(processedUrls) = LoadedUrls \cup {task[i].url : i \in Successes}
    /\ (config.resume /\ QueueBuilt) =>
          \A u \in Range(allUrls) : u \notin LoadedUrls => u \in Range(urlsToProcess)

\* C8 witness: on a resumed run one URL has failed and is not marked, another
\* has succeeded and is
C8_Witness ==
    /\ config.resume
    /\ \E i \in Failures : ~SetHas(processedUrls, task[i].url)
    /\ \E j \in Successes : SetHas(processedUrls, task[j].url)
                            /\ task[j].url \notin LoadedUrls

\* C9: when the process dies, the progress file is a complete snapshot (or
\* absent); it is unparseable only if this invocation found it so.
C9_AtomicCheckpoint ==
    Died => (disk.kind = "partial" => priorFile.kind = "partial")

\* C10: when process() has ended after tasks had started (normally, by a fatal
\* error or by a signal), every URL with a recorded Success is in the progress
\* file.
C10_FinalCheckpoint ==
    (pc \in {"done", "failed", "killed"} /\ urlsToProcess # <<>>) =>
        /\ disk.kind = "ok" \/ processedUrls = <<>>
        /\ Range(processedUrls) \subseteq Range(disk.processedUrls)


\* C11: a failed progress-file write (periodic or final) does not abort the run:
\* process() never ends in a fatal error because saveProgress threw.  (A task
\* is "rejected", and finalSnap is set while pc = "fatal", only through a
\* failed write.)
C11_WriteFailureNotFatal ==
    pc \in {"fatal", "failed"} =>
        /\ \A i \in DOMAIN task : task[i].pc # "rejected"
        /\ finalSnap = NoFile

\* C12: on a resumed run a missing or unparseable progress file is not fatal:
\* loadProgress leaves processedUrls empty and the stats at zero, process() goes
\* on to the sitemap, and the run processes every resolved URL.
C12_LoadNeverFatal ==
    /\ [][(pc = "new" /\ config.resume /\ disk.kind # "ok") =>
            \/ Died'
            \/ pc' = "fetch" /\ processedUrls' = <<>> /\ stats' = ZeroStats]_vars
    /\ []((config.resume /\ priorFile.kind # "ok") =>
            /\ urlsToProcess = allUrls
            /\ pc = "done" =>
                 /\ Len(task) = Len(allUrls)
                 /\ \A i \in DOMAIN task : task[i].url = allUrls[i]
                                           /\ task[i].result # "none")

\* C12 witness: a resumed run that found a truncated progress file has
\* completed with an outcome for both resolved URLs
C12_Witness ==
    /\ config.resume
    /\ priorFile.kind = "partial"
    /\ pc = "done"
    /\ Len(allUrls) = MaxUrls
    /\ \A i \in DOMAIN task : task[i].result # "none"

\* C13: saveProgress followed by loadProgress in a fresh converter restores the
\* processed set and all six counters: of the state at hand at every point of
\* a run, and of the final state from the file a completed run leaves.
C13_RoundTrip ==
    LET fresh(file) == LoadProgress(file, <<>>, ZeroStats)
        same(back)  == /\ Range(back.processedUrls) = Range(processedUrls)
                       /\ back.stats = stats
    IN  /\ same(fresh(SaveProgress(processedUrls, stats)))
        /\ pc = "done" => disk.kind = "ok" /\ same(fresh(disk))

\* C13 witness: a completed run has left a file holding processed URLs and
\* non-zero counters
C13_Witness ==
    /\ pc = "done"
    /\ disk.kind = "ok"
    /\ processedUrls # <<>>
    /\ stats.failed > 0
    /\ stats.totalSize > 0

----------------------------------------------------------------------------
(* fetchSitemap() and filterUrls(): URLs, patterns and documents *)

\* page URLs that sitemap documents list
PageUrls == URLS \cup {"/b/1"}

\* the characters of a string; "" is what an empty <loc/> parses to
Chars ==
    [u \in PageUrls \cup {""} |->
        CASE u = "/a/1" -> <<"/", "a", "/", "1">>
          [] u = "/a/2" -> <<"/", "a", "/", "2">>
          [] u = "/b/1" -> <<"/", "b", "/", "1">>
          [] OTHER      -> <<>>]

\* regular expressions as token sequences: "." is any character, ".*" any run
\* of characters, every other token is that character
PatB == <<".*", "/", "b", "/", ".*">>
PatA == <<"/", "a", "/">>
Pat1 == <<"/", ".", "/", "1">>

\* does the pattern match at the start of s (no anchor at the end)
RECURSIVE MatchHere(_, _)
MatchHere(p, s) ==
    IF p = <<>> THEN TRUE
    ELSE IF Head(p) = ".*"
         THEN \E k \in 0..Len(s) : MatchHere(Tail(p), SubSeq(s, k + 1, Len(s)))
         ELSE /\ s # <<>>
              /\ Head(p) = "." \/ Head(p) = Head(s)
              /\ MatchHere(Tail(p), Tail(s))

\* new RegExp(pattern).test(url): a match starting anywhere in url
RegExpTest(p, u) ==
    \E k \in 0..Len(Chars[u]) : MatchHere(p, SubSeq(Chars[u], k + 1, Len(Chars[u])))

\* patterns.some(pattern => new RegExp(pattern).test(url))
SomeMatch(patterns, u) == \E i \in DOMAIN patterns : RegExpTest(patterns[i], u)

\* mutant of Included: the length check is missing, an empty include list
\* matches nothing
IncludedNoLengthCheck(u, cfg) == SomeMatch(cfg.includePatterns, u)

\* if (includePatterns.length > 0) return includePatterns.some(...); return true
Included(u, cfg) ==
    IF Len(cfg.includePatterns) > 0 THEN SomeMatch(cfg.includePatterns, u) ELSE TRUE

\* mutant of Keep: the include patterns are looked at first
KeepIncludeFirst(u, cfg) ==
    IF Len(cfg.includePatterns) > 0 /\ SomeMatch(cfg.includePatterns, u)
    THEN TRUE
    ELSE ~SomeMatch(cfg.excludePatterns, u) /\ Len(cfg.includePatterns) = 0

\* the callback of urls.filter in filterUrls
Keep(u, cfg) ==
    IF SomeMatch(cfg.excludePatterns, u) THEN FALSE ELSE Included(u, cfg)

\* private filterUrls(urls: string[]): string[]
FilterUrls(urls, cfg) ==
    LET keep(u) == Keep(u, cfg) IN SelectSeq(urls, keep)

\* sitemap URLs as path segments below config.url
Root == <<"sitemap.xml">>
ChildA == <<"a", "sitemap.xml">>
ChildB == <<"b", "sitemap.xml">>

\* the file names of the alternative sitemap paths, in the order of the array
AltNames == <<"sitemap_index.xml", "sitemaps.xml", "sitemap-index.xml">>

\* url.replace('/sitemap.xml', '/' + name): the first occurrence is replaced,
\* a URL without one is returned as it is
Replace(u, name) ==
    LET hits == {i \in DOMAIN u : u[i] = "sitemap.xml"}
    IN  IF hits = {} THEN u
        ELSE [u EXCEPT ![CHOOSE i \in hits : \A j \in hits : i <= j] = name]

\* const alternatives = [ url.replace(...), url.replace(...), url.replace(...) ]
Alternatives(u) == [k \in DOMAIN AltNames |-> Replace(u, AltNames[k])]

\* what axios.get and xml2js make of a URL:
\*   "down"         the request fails (network error, 4xx/5xx, timeout)
\*   "notxml"       a body that parseStringPromise rejects
\*   "urlset"       { urlset: { url: [...] } }
\*   "sitemapindex" { sitemapindex: { sitemap: [...] } }
\*   "other"        well-formed XML of any other shape
Down == [kind |-> "down", locs |-> <<>>, sitemaps |-> <<>>]
NotXml == [kind |-> "notxml", locs |-> <<>>, sitemaps |-> <<>>]
Other == [kind |-> "other", locs |-> <<>>, sitemaps |-> <<>>]
Urlset(locs) == [kind |-> "urlset", locs |-> locs, sitemaps |-> <<>>]
SitemapIndex(children) == [kind |-> "sitemapindex", locs |-> <<>>, sitemaps |-> children]

\* the answer of the server for a URL; a URL it does not know is down
Doc(w, u) == IF u \in DOMAIN w.docs THEN w.docs[u] ELSE Down

\* urlObjects.map(url => url.loc).filter(Boolean): empty locs are dropped
Locs(doc) == LET truthy(u) == u # "" IN SelectSeq(doc.locs, truthy)

\* longest <url> list of one urlset document
MaxLocs == 2
\* how many axios.get calls in a row a transient outage makes fail
MaxOutage == 1

\* a root urlset with every short list of locs, repeats and empty locs included
UrlsetSites ==
    {Root :> Urlset(l) : l \in SeqsUpTo({"/a/1", "/b/1", ""}, MaxLocs)}

\* a root index of two child sitemaps, listed in either order
IndexSites ==
    {Root :> SitemapIndex(c) @@ ChildA :> a @@ ChildB :> b :
        c \in {<<ChildA, ChildB>>, <<ChildB, ChildA>>},
        a \in {Down, Urlset(<<"/a/1", "/a/2">>), Urlset(<<"/a/1">>)},
        b \in {Down, Other, Urlset(<<"/b/1">>), Urlset(<<"/a/1", "/b/1">>)}}

\* a root that cannot be resolved, with or without an alternative path
BrokenSites ==
    {Root :> r @@ Replace(Root, AltNames[1]) :> x @@ Replace(Root, AltNames[3]) :> y :
        r \in {Down, NotXml, Other},
        x \in {Down, Urlset(<<"/a/1">>)},
        y \in {Down, Urlset(<<"/a/1", "/b/1">>)}}

\* an index that lists itself, or whose child index lists the root again
CyclicSites ==
    {Root :> SitemapIndex(<<Root>>),
     Root :> SitemapIndex(<<ChildB, Root>>) @@ ChildB :> Urlset(<<"/b/1">>),
     Root :> SitemapIndex(<<ChildA>>) @@ ChildA :> SitemapIndex(<<Root>>)}

Webs ==
    [docs : UrlsetSites \cup IndexSites \cup BrokenSites \cup CyclicSites,
     outage : 0..MaxOutage]

\* the configurations of the resolver: retry budgets and pattern lists
SitemapConfigs ==
    [concurrency : {1},
     retries     : {0, 1, MaxRetries, MaxRetries + 1},
     delay       : {0},
     resume      : {FALSE},
     merge       : {FALSE},
     includePatterns : {<<>>, <<PatA>>, <<Pat1, PatB>>},
     excludePatterns : {<<>>, <<PatB>>, <<Pat1>>}]

----------------------------------------------------------------------------
(* fetchSitemap(): the recursion as a stack of pending calls *)

\* deepest stack of pending calls followed: a root and a child sitemap, each
\* with all its retries pending
MaxDepth == 2 * (MaxRetries + 2)

\* a call fetchSitemap(url, retryCount) at its first statement; born is the
\* number of requests made before the call, waited the delay awaited before it
NewFrame(u, rc) ==
    [url |-> u, retryCount |-> rc, stage |-> "fetch", i |-> 1,
     urls |-> <<>>, sitemaps |-> <<>>, born |-> Len(fetchLog), waited |-> 0]

\* the factor of the retry delay, in milliseconds
BackoffMs == 1000

\* mutant of Backoff: the delay doubles with every retry
BackoffExponential(rc) == BackoffMs * 2 ^ rc

\* await this.delay(1000 * (retryCount + 1))
Backoff(rc) == BackoffMs * (rc + 1)

\* the call that is running, and the calls that await it
Top == stack[Len(stack)]
Callers == SubSeq(stack, 1, Len(stack) - 1)
SetTop(f) == Append(Callers, f)

\* mutant of PushAll: urls = sitemapUrls, the children before are forgotten
PushAllOverwrite(urls, more) == more

\* urls.push(...sitemapUrls)
PushAll(urls, more) == urls \o more

\* a call returns v to the calls awaiting it: the for loop over the child
\* sitemaps goes on, "return this.fetchSitemap(...)" and "return await
\* this.fetchSitemap(...)" return v in their turn
RECURSIVE ReturnTo(_, _)
ReturnTo(stk, v) ==
    IF stk = <<>> THEN [stack |-> <<>>, status |-> "returned", value |-> v]
    ELSE LET c    == stk[Len(stk)]
             rest == SubSeq(stk, 1, Len(stk) - 1)
         IN  IF c.stage = "awaitChild"
             THEN [stack  |-> Append(rest, [c EXCEPT !.urls = PushAll(@, v),
                                                     !.i = @ + 1,
                                                     !.stage = "children"]),
                   status |-> "pending", value |-> <<>>]
             ELSE ReturnTo(rest, v)

\* a call throws to the calls awaiting it: inside the try block the catch
\* block is entered, inside the loop over the alternatives the next one is
\* tried, "return this.fetchSitemap(url, retryCount + 1)" rejects in its turn
RECURSIVE ThrowTo(_)
ThrowTo(stk) ==
    IF stk = <<>> THEN [stack |-> <<>>, status |-> "threw", value |-> <<>>]
    ELSE LET c    == stk[Len(stk)]
             rest == SubSeq(stk, 1, Len(stk) - 1)
         IN  CASE c.stage = "awaitChild" ->
                    [stack  |-> Append(rest, [c EXCEPT !.stage = "catch"]),
                     status |-> "pending", value |-> <<>>]
               [] c.stage = "awaitAlt" ->
                    [stack  |-> Append(rest, [c EXCEPT !.i = @ + 1, !.stage = "alts"]),
                     status |-> "pending", value |-> <<>>]
               [] OTHER -> ThrowTo(rest)

\* the outermost call settles and process() goes on: the work list and
\* stats.total, or its catch block
Settle(r) ==
    /\ stack' = r.stack
    /\ CASE r.status = "returned" ->
              LET todo == UrlsToProcess(r.value, processedUrls, config)
              IN  /\ pc' = "queued"
                  /\ allUrls' = r.value
                  /\ urlsToProcess' = todo
                  /\ stats' = [stats EXCEPT !.total = Len(todo)]
         [] r.status = "threw" ->
              /\ pc' = "fatal"
              /\ UNCHANGED <<allUrls, urlsToProcess, stats>>
         [] OTHER -> UNCHANGED <<pc, allUrls, urlsToProcess, stats>>
    /\ UNCHANGED <<config, processedUrls, pageContents, task, nextIdx,
                   finalSnap, disk, priorFile, web, fetchLog, mergedHTML>>

\* process() has called fetchSitemap(`${config.url}/sitemap.xml`)
SitemapInit ==
    /\ config \in SitemapConfigs
    /\ web \in Webs
    /\ pc = "fetch"
    /\ fetchLog = <<>>
    /\ stack = <<NewFrame(Root, 0)>>
    /\ mergedHTML = NoDocument
    /\ stats = ZeroStats
    /\ processedUrls = <<>>
    /\ pageContents = <<>>
    /\ allUrls = <<>>
    /\ urlsToProcess = <<>>
    /\ task = <<>>
    /\ nextIdx = 1
    /\ finalSnap = NoFile
    /\ disk = NoFile
    /\ priorFile = NoFile

Resolving == pc = "fetch" /\ stack # <<>>

\* await axios.get(url); await xml2js.parseStringPromise(response.data); the
\* branch on the shape of the parsed document
Get ==
    /\ Resolving
    /\ Top.stage = "fetch"
    /\ LET doc == Doc(web, Top.url)
           got == ~(Len(fetchLog) < web.outage \/ doc.kind = "down")
       IN  /\ fetchLog' = Append(fetchLog, [url |-> Top.url, got |-> got])
           /\ stack' = SetTop(
                 IF ~got \/ doc.kind = "notxml"
                 THEN [Top EXCEPT !.stage = "catch"]
                 ELSE IF doc.kind = "sitemapindex"
                 THEN [Top EXCEPT !.stage = "children", !.sitemaps = doc.sitemaps]
                 ELSE IF doc.kind = "urlset"
                 THEN [Top EXCEPT !.stage = "return", !.urls = Locs(doc)]
                 ELSE [Top EXCEPT !.stage = "return"])
    /\ UNCHANGED <<config, pc, stats, processedUrls, pageContents, allUrls,
                   urlsToProcess, task, nextIdx, finalSnap, disk, priorFile, web,
                   mergedHTML>>

\* for (const sitemap of sitemaps) await this.fetchSitemap(sitemap.loc)
CallChild ==
    /\ Resolving
    /\ Top.stage = "children"
    /\ Top.i <= Len(Top.sitemaps)
    /\ Len(stack) < MaxDepth
    /\ stack' = Append(SetTop([Top EXCEPT !.stage = "awaitChild"]),
                       NewFrame(Top.sitemaps[Top.i], 0))
    /\ UNCHANGED <<config, pc, stats, processedUrls, pageContents, allUrls,
                   urlsToProcess, task, nextIdx, finalSnap, disk, priorFile,
                   web, fetchLog, mergedHTML>>

\* return this.filterUrls(urls)
ReturnUrls ==
    /\ Resolving
    /\ \/ Top.stage = "return"
       \/ Top.stage = "children" /\ Top.i > Len(Top.sitemaps)
    /\ Settle(ReturnTo(Callers, FilterUrls(Top.urls, config)))

\* if (retryCount < retries) { await delay(...); return fetchSitemap(url, retryCount + 1) }
Retry ==
    /\ Resolving
    /\ Top.stage = "catch"
    /\ Top.retryCount < config.retries
    /\ Len(stack) < MaxDepth
    /\ stack' = Append(SetTop([Top EXCEPT !.stage = "awaitRetry"]),
                       [NewFrame(Top.url, Top.retryCount + 1)
                            EXCEPT !.waited = Backoff(Top.retryCount)])
    /\ UNCHANGED <<config, pc, stats, processedUrls, pageContents, allUrls,
                   urlsToProcess, task, nextIdx, finalSnap, disk, priorFile,
                   web, fetchLog, mergedHTML>>

\* the retries are used up and retryCount === 0
InAlternatives(f) ==
    \/ f.stage = "catch" /\ ~(f.retryCount < config.retries) /\ f.retryCount = 0
    \/ f.stage = "alts"

\* for (const altUrl of alternatives) try { return await fetchSitemap(altUrl, 0) }
CallAlt ==
    /\ Resolving
    /\ InAlternatives(Top)
    /\ Top.i <= Len(AltNames)
    /\ Len(stack) < MaxDepth
    /\ stack' = Append(SetTop([Top EXCEPT !.stage = "awaitAlt"]),
                       NewFrame(Alternatives(Top.url)[Top.i], 0))
    /\ UNCHANGED <<config, pc, stats, processedUrls, pageContents, allUrls,
                   urlsToProcess, task, nextIdx, finalSnap, disk, priorFile,
                   web, fetchLog, mergedHTML>>

\* throw new Error(`Could not fetch sitemap after ${retries} retries`)
ThrowError ==
    /\ Resolving
    /\ \/ Top.stage = "catch" /\ ~(Top.retryCount < config.retries)
                              /\ Top.retryCount # 0
       \/ Top.stage = "alts" /\ Top.i > Len(AltNames)
    /\ Settle(ThrowTo(Callers))

SitemapNext ==
    \/ Get
    \/ CallChild
    \/ ReturnUrls
    \/ Retry
    \/ CallAlt
    \/ ThrowError

SitemapSpec == SitemapInit /\ [][SitemapNext]_vars

----------------------------------------------------------------------------
(* Properties of fetchSitemap() and filterUrls() *)

\* the locs of a document and of the documents below it, in document order,
\* before any filtering
RECURSIVE Flat(_)
RECURSIVE FlatAll(_)
Flat(u) ==
    LET doc == Doc(web, u)
    IN  IF doc.kind = "sitemapindex" THEN FlatAll(doc.sitemaps) ELSE Locs(doc)
FlatAll(us) == IF us = <<>> THEN <<>> ELSE Flat(Head(us)) \o FlatAll(Tail(us))

\* an attempt of the log that ended in the catch block
Failed(e) == ~e.got \/ Doc(web, e.url).kind = "notxml"

\* the loc lists filterUrls is given: those of the documents of the server
LocLists == {Locs(Doc(web, u)) : u \in DOMAIN web.docs}

\* the specification's scenario: index of A (/a/1, /a/2) and B (/b/1)
ScenarioSite ==
    Root :> SitemapIndex(<<ChildA, ChildB>>)
        @@ ChildA :> Urlset(<<"/a/1", "/a/2">>)
        @@ ChildB :> Urlset(<<"/b/1">>)

\* C14: filterUrls keeps no URL that matches an exclude pattern, whether or
\* not it matches an include pattern; so the resolved list holds none, and the
\* scenario with exclude pattern .*/b/.* resolves to {/a/1, /a/2}.
C14_ExcludeWins ==
    /\ \A l \in LocLists : \A x \in Range(FilterUrls(l, config)) :
           ~SomeMatch(config.excludePatterns, x)
    /\ pc = "queued" =>
           \A x \in Range(allUrls) : ~SomeMatch(config.excludePatterns, x)
    /\ (/\ pc = "queued"
        /\ web.docs = ScenarioSite
        /\ config.excludePatterns = <<PatB>>
        /\ config.includePatterns = <<>>) => Range(allUrls) = {"/a/1", "/a/2"}

\* C14 witness: a listed URL matching an include and an exclude pattern is
\* absent from the resolved list
C14_Witness ==
    /\ pc = "queued"
    /\ allUrls # <<>>
    /\ \E x \in Range(Flat(Root)) :
           /\ SomeMatch(config.includePatterns, x)
           /\ SomeMatch(config.excludePatterns, x)
           /\ x \notin Range(allUrls)

\* C15: a URL matching no exclude pattern is kept iff the include list is
\* empty or one of its patterns matches; filtering a filtered list changes
\* nothing, and a resolution without failed attempts, which filters at every
\* level, gives the once-filtered flat list.
C15_KeepRule ==
    /\ \A l \in LocLists : \A k \in DOMAIN l :
           ~SomeMatch(config.excludePatterns, l[k]) =>
               (l[k] \in Range(FilterUrls(l, config))
                  <=> \/ config.includePatterns = <<>>
                      \/ SomeMatch(config.includePatterns, l[k]))
    /\ \A l \in LocLists :
           FilterUrls(FilterUrls(l, config), config) = FilterUrls(l, config)
    /\ (pc = "queued" /\ \A k \in DOMAIN fetchLog : ~Failed(fetchLog[k])) =>
           allUrls = FilterUrls(Flat(Root), config)

\* C15 witness: a nested sitemap resolved under a non-empty include list that
\* keeps some listed URLs and drops another one no exclude pattern matches
C15_Witness ==
    /\ pc = "queued"
    /\ Doc(web, Root).kind = "sitemapindex"
    /\ Len(config.includePatterns) > 0
    /\ allUrls # <<>>
    /\ \E x \in Range(Flat(Root)) :
           ~SomeMatch(config.excludePatterns, x) /\ x \notin Range(allUrls)

\* the attempts of the log on one URL
Attempts(u) == {k \in DOMAIN fetchLog : fetchLog[k].url = u}

\* the child sitemaps the root index lists
RootChildren == Range(Doc(web, Root).sitemaps)

\* what one document contributes after filtering
Filtered(u) == Range(FilterUrls(Locs(Doc(web, u)), config))

\* C16: an index resolved without any failed attempt yields exactly the union
\* of its children's filtered URLs, whatever the order the index lists them in.
C16_IndexUnion ==
    (/\ pc = "queued"
     /\ Doc(web, Root).kind = "sitemapindex"
     /\ \A k \in DOMAIN fetchLog : ~Failed(fetchLog[k]))
        => Range(allUrls) = UNION {Filtered(c) : c \in RootChildren}

\* C16 witness: an index listing B before A is resolved and both children
\* have contributed
C16_Witness ==
    /\ pc = "queued"
    /\ Doc(web, Root).sitemaps = <<ChildB, ChildA>>
    /\ \A k \in DOMAIN fetchLog : ~Failed(fetchLog[k])
    /\ Filtered(ChildA) \ Filtered(ChildB) # {}
    /\ Filtered(ChildB) \ Filtered(ChildA) # {}
    /\ Cardinality(Range(allUrls)) > 1

\* C17: the work list process() builds holds no URL twice.
C17_NoDuplicates ==
    pc = "queued" =>
        \A i, j \in DOMAIN urlsToProcess :
            i # j => urlsToProcess[i] # urlsToProcess[j]

\* C18: while the root index itself is fetched and parsed, the failure of a
\* child sitemap does not fail the resolution, and the resolved list is the
\* union of the children that are up.
C18_ChildFailureLocal ==
    (/\ Doc(web, Root).kind = "sitemapindex"
     /\ \A k \in Attempts(Root) : ~Failed(fetchLog[k]))
        => /\ pc # "fatal"
           /\ pc = "queued" =>
                Range(allUrls) =
                    UNION {Filtered(c) : c \in {d \in RootChildren :
                                                    Doc(web, d).kind # "down"}}

\* C19: when all attempts on the root have failed, the fatal error comes after
\* config.retries + 1 attempts on the root and an attempt on each of the three
\* alternative paths.
C19_RetriesThenAlternatives ==
    (/\ pc = "fatal"
     /\ \A k \in Attempts(Root) : ~fetchLog[k].got)
        => /\ Cardinality(Attempts(Root)) = config.retries + 1
           /\ \A a \in Range(Alternatives(Root)) : Attempts(a) # {}

\* C20: a document of unknown shape never reaches "return filterUrls(urls)",
\* and no resolution succeeds on the strength of one.
C20_UnknownShapeFails ==
    /\ (Resolving /\ Top.stage = "return") => Doc(web, Top.url).kind = "urlset"
    /\ (pc = "queued" /\ Len(fetchLog) = 1) => Doc(web, Root).kind # "other"

----------------------------------------------------------------------------
(* Termination of fetchSitemap() *)

\* the sitemaps reached from u through at most n levels of index documents
RECURSIVE Below(_, _, _)
Below(w, u, n) ==
    IF n = 0 THEN {}
    ELSE LET kids == Range(Doc(w, u).sitemaps)
         IN  kids \cup UNION {Below(w, k, n - 1) : k \in kids}

\* some index lists itself or one of its ancestors
Cyclic(w) ==
    \E u \in DOMAIN w.docs : u \in Below(w, u, Cardinality(DOMAIN w.docs))

\* fetchSitemap reads nothing but its arguments, this.config and the server:
\* a call that begins with the arguments of a call still pending, both begun
\* when the answers of the server no longer change, takes the steps of the
\* pending call again, down to the same nested call, without end
RecursFrom(stages) ==
    \E i, j \in DOMAIN stack :
        /\ i < j
        /\ stack[i].stage \in stages
        /\ stack[j].stage = "fetch"
        /\ stack[j].url = stack[i].url
        /\ stack[j].retryCount = stack[i].retryCount
        /\ stack[i].born >= web.outage

\* C21: on a cyclic sitemap index fetchSitemap terminates; in finite-run
\* form: the loop over the children of an index never leads to a call with
\* the arguments of the pending call of that index.
C21_CyclicIndexTerminates ==
    (pc = "fetch" /\ Cyclic(web)) => ~RecursFrom({"awaitChild"})

\* C22: on an acyclic sitemap fetchSitemap terminates whatever fetches fail;
\* in finite-run form: neither the retries nor the alternative paths ever
\* lead to a call with the arguments of a call still pending.
C22_AcyclicTerminates ==
    (pc = "fetch" /\ ~Cyclic(web)) =>
        ~RecursFrom({"awaitChild", "awaitRetry", "awaitAlt"})

----------------------------------------------------------------------------
(* Properties of the task loop of process() *)

\* C23: the step in which the rendering of a URL fails leaves process() where
\* it is and the task unrejected; while process() awaits the tasks some task
\* is under way or all have resolved, and a completed run has given every URL
\* of the work list its outcome.
C23_RenderFailureLocal ==
    /\ [][\A i \in DOMAIN task \cap DOMAIN task' :
            (/\ task[i].pc = "convert"
             /\ task'[i].pc # "convert"
             /\ task'[i].cause = RenderError)
                => pc' = pc /\ task'[i].pc # "rejected"]_vars
    /\ [](pc = "running" =>
            \/ \E i \in DOMAIN task : task[i].pc \in InSlot
            \/ \A i \in DOMAIN task : task[i].pc = "done")
    /\ [](pc = "done" => \A i \in DOMAIN task : task[i].result # "none")

\* the tasks with a saveProgress write of their own under way
TaskWriters == {i \in DOMAIN task : task[i].pc \in {"saving", "writing"}}

\* the final saveProgress of the driver is under way
DriverWrites == pc \in {"finalsave", "finalwriting"}

\* C24: the progress file has a single writer: no task writes it, and never
\* are two saveProgress writes under way at once.
C24_SingleWriter ==
    /\ TaskWriters = {}
    /\ Cardinality(TaskWriters) + (IF DriverWrites THEN 1 ELSE 0) <= 1

\* the delays awaited by the n innermost pending calls
RECURSIVE WaitedByTop(_)
WaitedByTop(n) ==
    IF n = 0 THEN 0 ELSE stack[Len(stack) - (n - 1)].waited + WaitedByTop(n - 1)

\* the innermost call has failed with the retry budget r > 0 used up
BudgetExhausted ==
    /\ Resolving
    /\ Top.stage = "catch"
    /\ Top.retryCount = config.retries
    /\ config.retries > 0

\* C25: the n-th retry follows a delay of 1000 * n ms, and a call whose retry
\* budget r is used up has waited 1000 * r * (r + 1) / 2 ms in all.
C25_LinearBackoff ==
    /\ \A j \in DOMAIN stack :
           stack[j].retryCount > 0 => stack[j].waited = 1000 * stack[j].retryCount
    /\ BudgetExhausted =>
           WaitedByTop(config.retries) =
               (1000 * config.retries * (config.retries + 1)) \div 2

\* C25 witness: a budget of more than two retries is used up, where linear and
\* doubling delays differ
C25_Witness ==
    /\ BudgetExhausted
    /\ config.retries > 2
    /\ Top.waited = 1000 * config.retries

\* the tasks of t that have recorded their outcome
RecordedIn(t) == {j \in DOMAIN t : t[j].result # "none"}

\* C26: a task starts the periodic saveProgress exactly when its outcome is
\* the 10th, 20th, ... outcome recorded in this run, fresh or resumed, and the
\* driver starts one more when all tasks have resolved.
C26_SaveEveryTenth ==
    /\ [][\A i \in DOMAIN task \cap DOMAIN task' :
            (task[i].result = "none" /\ task'[i].result # "none") =>
                (task'[i].pc = "saving"
                    <=> Cardinality(RecordedIn(task')) % SaveEvery = 0)]_vars
    /\ [][(pc = "running" /\ pc' \in {"finalsave", "merging"}) =>
            \A i \in DOMAIN task : task[i].pc = "done"]_vars

\* no URL occurs twice in a list
NoRepeats(s) == \A i, j \in DOMAIN s : i # j => s[i] # s[j]

\* the snapshots saveProgress has built in this invocation: those being
\* written by tasks or by the driver, and the one written to the file
Snapshots ==
    {task[i].snap : i \in TaskWriters}
        \cup (IF DriverWrites THEN {finalSnap} ELSE {})
        \cup (IF disk.kind = "ok" /\ disk # priorFile THEN {disk} ELSE {})

\* C27: for a work list without repeats, every snapshot saveProgress builds
\* holds as many processed URLs as its stats count successes.
C27_SnapshotConsistent ==
    NoRepeats(urlsToProcess) =>
        \A s \in Snapshots : Len(s.processedUrls) = JsonToNum(s.stats.successful)

\* C27 witness: under concurrency 2 the second task finishes first and the
\* first one builds the snapshot with both URLs
C27_Witness ==
    /\ config.concurrency > 1
    /\ NoRepeats(urlsToProcess)
    /\ \E i \in TaskWriters :
           /\ Len(task[i].snap.processedUrls) > 1
           /\ task[i].snap.processedUrls[1] = task[Len(task)].url
           /\ i < Len(task)

\* C28: once loadProgress has run, every step of process() keeps
\* processedUrls and at most adds URLs at its end.
C28_ProcessedOnlyGrows ==
    [][pc # "new" =>
        /\ Len(processedUrls') >= Len(processedUrls)
        /\ SubSeq(processedUrls', 1, Len(processedUrls)) = processedUrls]_vars

\* C28 witness: a resumed run has loaded one URL and added another
C28_Witness ==
    /\ pc = "done"
    /\ Len(Loaded.processedUrls) = 1
    /\ Len(processedUrls) > 1

\* C29: with config.delay > 0 a task that has recorded its outcome leaves its
\* concurrency slot, which lets the next queued URL start, only from the
\* delay.
C29_DelayHoldsSlot ==
    [][\A i \in DOMAIN task \cap DOMAIN task' :
        (/\ config.delay > 0
         /\ task[i].pc \in InSlot
         /\ task'[i].pc \notin InSlot
         /\ task'[i].result # "none") => task[i].pc = "delay"]_vars

\* C30: in merge mode every successful extraction appends its page at the
\* end of pageContents, nothing else changes the list while the process
\* lives, and it holds one entry per success; so its order is the order of
\* completion.
C30_CompletionOrder ==
    /\ [][(pageContents' # pageContents /\ ~Died') =>
            \E i \in DOMAIN task \cap DOMAIN task' :
                /\ config.merge
                /\ task[i].pc = "convert"
                /\ task[i].result = "none"
                /\ task'[i].result = "Success"
                /\ pageContents' = Append(pageContents, task[i].url)]_vars
    /\ [](TasksRun => Len(pageContents) =
                        (IF config.merge THEN Cardinality(Successes) ELSE 0))

\* C30 witness: two pages extracted under concurrency 2, in the buffer the
\* second URL of the work list comes first
C30_Witness ==
    /\ config.merge
    /\ Len(urlsToProcess) = 2
    /\ urlsToProcess[1] # urlsToProcess[2]
    /\ pageContents = <<urlsToProcess[2], urlsToProcess[1]>>

\* the tasks that have been given their file name
Named == {i \in DOMAIN task : task[i].counter > 0}

\* C32: outside merge mode no two tasks of a run are given the same numeric
\* file name prefix (work lists without repeated URLs).
C32_DistinctPrefixes ==
    (~config.merge /\ NoRepeats(urlsToProcess)) =>
        \A i, j \in Named : i # j => task[i].counter # task[j].counter

----------------------------------------------------------------------------
(* Properties of createMergedHTML() *)

\* the positions in the document where a page block opens, and those among
\* them that carry the page-break class
BlockStarts == {k \in DOMAIN mergedHTML : mergedHTML[k][1] = "div"}
PageBreaks == {k \in DOMAIN mergedHTML : mergedHTML[k] = <<"div", "page-break">>}

\* the position where the n-th block opens
NthBlock(n) ==
    CHOOSE k \in BlockStarts : Cardinality({j \in BlockStarts : j < k}) = n - 1

\* C31: the document built from n >= 1 page contents has n page blocks, the
\* i-th with title, url and content of the i-th page, and n - 1 page-break
\* markers: on every block but the first, and nowhere else.
C31_MergedBlocks ==
    mergedHTML # NoDocument =>
        LET n == Len(pageContents)
            c == Contents(pageContents)
        IN  /\ n >= 1
            /\ Cardinality(BlockStarts) = n
            /\ Cardinality(PageBreaks) = n - 1
            /\ PageBreaks \subseteq BlockStarts
            /\ \A i \in 1..n :
                 LET k == NthBlock(i)
                 IN  /\ (k \in PageBreaks) <=> (i > 1)
                     /\ mergedHTML[k + 1] = <<"page-title", c[i].title>>
                     /\ mergedHTML[k + 2] = <<"page-url", c[i].url>>
                     /\ mergedHTML[k + 3] = <<"page-content", c[i].html>>
                     /\ mergedHTML[k + 4] = <<"/div", "">>

\* C31 witness: a document of more than one page has been built
C31_Witness ==
    /\ mergedHTML # NoDocument
    /\ Len(pageContents) > 1
    /\ PageBreaks # {}
====
